---- MODULE Spec2Model ----
(***************************************************************************)
(* Model of server/bot_runtime.py: the thread-based runtime controller     *)
(* BotRuntime (start / stop / status) and its worker thread _thread_main.  *)
(*                                                                         *)
(* Every `with self._lock:` block is two steps: the acquisition of the     *)
(* lock (which blocks while another thread holds it) and the block's body  *)
(* together with the release.  The worker thread is alive from t.start()   *)
(* until its run() has returned, which is after the last `with` block of   *)
(* _thread_main has released the lock (ThreadExit).  _run_bot reads the    *)
(* stop event without the lock.  The body wired into _run_bot is the       *)
(* environment: each run has one of the kinds of BodyKinds.                *)
(***************************************************************************)
EXTENDS Integers, Sequences, FiniteSets, TLC

\* Number of threads calling start()/stop()/status() concurrently.
NumCallers == 2

\* Number of Thread objects that can exist at once (slots for live workers).
MaxThreads == 2

Callers == 1..NumCallers
Threads == 1..MaxThreads

\* self._thread is None
None == 0

\* Exceptions the wired bot body may raise: class name and message.
Errors == { [cls |-> "ValueError", msg |-> "boom"], [cls |-> "RuntimeError", msg |-> "lost"] }

NoError == [cls |-> "", msg |-> ""]

\* What _run_bot does in a run: "poll" is the loop of the source (returns once
\* the stop event is set); "finish" returns on its own; "raise" raises an
\* Exception; "hang" never returns and never looks at the stop event.
BodyKinds == {"poll", "finish", "raise", "hang"}

\* repr(e) of an exception with one string argument: ValueError('boom')
Repr(e) == e.cls \o "('" \o e.msg \o "')"

\* BotStatus(running, state, detail)
BotStatus(r, s, d) == [running |-> r, state |-> s, detail |-> d]

\* The value of a caller's result before any call has returned.
NoStatus == BotStatus(FALSE, "", "")

\* The start();stop();start() round trip, as kinds of call.
RoundTrip == <<"start", "stop", "start">>

VARIABLES
    lock,        \* self._lock: <<"free", 0>>, <<"caller", c>> or <<"worker", t>>
    thread,      \* self._thread: None or the Thread object last stored
    stop_event,  \* self._stop_event.is_set()
    status,      \* self._status
    pc,          \* pc[c]: where caller c is in its call
    ret,         \* the BotStatus the most recent call returned
    tpc,         \* tpc[t]: where Thread t is in _thread_main
    kind,        \* kind[t]: what the bot body of Thread t's run does
    err,         \* err[t]: the exception _run_bot raised in Thread t
    calls        \* the last start()/stop() calls, in the order of the lock

vars == <<lock, thread, stop_event, status, pc, ret, tpc, kind, err, calls>>

Free == <<"free", 0>>

\* Thread.is_alive(): started and run() not yet finished.
is_alive(t) == tpc[t] \notin {"unborn", "dead"}

\* A start() that trusted the stored status instead of the thread's liveness.
ThreadAliveByStatus == status.state = "running"

\* self._thread and self._thread.is_alive()
ThreadAlive == thread # None /\ is_alive(thread)

LiveThreads == { t \in Threads : is_alive(t) }

\* The calls remembered: those that can precede the start() closing a round trip.
Remember(c) == IF Len(calls) < Len(RoundTrip) - 1 THEN Append(calls, c)
               ELSE Append(Tail(calls), c)

Init ==
    /\ lock = Free
    /\ thread = None
    /\ stop_event = FALSE
    /\ status = BotStatus(FALSE, "idle", "not started")
    /\ pc = [c \in Callers |-> "idle"]
    /\ ret = NoStatus
    /\ tpc = [t \in Threads |-> "unborn"]
    /\ kind = [t \in Threads |-> "none"]
    /\ err = [t \in Threads |-> NoError]
    /\ calls = << >>

----------------------------------------------------------------------------
\* Callers

\* A caller begins start(), stop() or status(): it arrives at `with self._lock`.
Call(c, op) ==
    /\ pc[c] = "idle"
    /\ pc' = [pc EXCEPT ![c] = op \o "_wait"]
    /\ UNCHANGED <<lock, thread, stop_event, status, ret, tpc, kind, err, calls>>

\* `with self._lock:` of a caller: blocks until the lock is free.
Acquire(c) ==
    /\ pc[c] \in {"start_wait", "stop_wait", "status_wait"}
    /\ lock = Free
    /\ lock' = <<"caller", c>>
    /\ pc' = [pc EXCEPT ![c] = IF pc[c] = "start_wait" THEN "start_cs"
                                ELSE IF pc[c] = "stop_wait" THEN "stop_cs"
                                ELSE "status_cs"]
    /\ UNCHANGED <<thread, stop_event, status, ret, tpc, kind, err, calls>>

\* A status() that took the running flag from the thread's liveness.
StatusLiveRunning(c) ==
    /\ pc[c] = "status_cs"
    /\ lock = <<"caller", c>>
    /\ ret' = [status EXCEPT !.running = ThreadAlive]
    /\ lock' = Free
    /\ pc' = [pc EXCEPT ![c] = "idle"]
    /\ UNCHANGED <<thread, stop_event, status, tpc, kind, err, calls>>

\* A status() that settled the stored status to stopped once the thread is gone.
StatusRefreshes(c) ==
    /\ pc[c] = "status_cs"
    /\ lock = <<"caller", c>>
    /\ status' = IF ThreadAlive \/ thread = None THEN status
                 ELSE BotStatus(FALSE, "stopped", "finished")
    /\ ret' = status'
    /\ lock' = Free
    /\ pc' = [pc EXCEPT ![c] = "idle"]
    /\ UNCHANGED <<thread, stop_event, tpc, kind, err, calls>>

\* status(): return self._status
Status(c) ==
    /\ pc[c] = "status_cs"
    /\ lock = <<"caller", c>>
    /\ ret' = status
    /\ lock' = Free
    /\ pc' = [pc EXCEPT ![c] = "idle"]
    /\ UNCHANGED <<thread, stop_event, status, tpc, kind, err, calls>>

\* A no-op start() that returned the stored status without rewriting it.
StartNoopKeepStatus(c) ==
    /\ pc[c] = "start_cs"
    /\ lock = <<"caller", c>>
    /\ ThreadAlive
    /\ ret' = status
    /\ calls' = Remember("start_noop")
    /\ lock' = Free
    /\ pc' = [pc EXCEPT ![c] = "idle"]
    /\ UNCHANGED <<thread, stop_event, status, tpc, kind, err>>

\* A no-op start() that also cleared the stop event.
StartNoopClears(c) ==
    /\ pc[c] = "start_cs"
    /\ lock = <<"caller", c>>
    /\ ThreadAlive
    /\ stop_event' = FALSE
    /\ status' = BotStatus(TRUE, "running", "already running")
    /\ ret' = status'
    /\ calls' = Remember("start_noop")
    /\ lock' = Free
    /\ pc' = [pc EXCEPT ![c] = "idle"]
    /\ UNCHANGED <<thread, tpc, kind, err>>

\* start(), the branch of a live thread: "already running".
StartNoop(c) ==
    /\ pc[c] = "start_cs"
    /\ lock = <<"caller", c>>
    /\ ThreadAlive
    /\ status' = BotStatus(TRUE, "running", "already running")
    /\ ret' = status'
    /\ calls' = Remember("start_noop")
    /\ lock' = Free
    /\ pc' = [pc EXCEPT ![c] = "idle"]
    /\ UNCHANGED <<thread, stop_event, tpc, kind, err>>

\* The Thread object start() creates: one that does not exist yet or is gone.
NewThread == CHOOSE t \in Threads : ~is_alive(t) /\ \A u \in Threads : ~is_alive(u) => t <= u

\* A launching start() that forgot self._stop_event.clear().
StartLaunchNoClear(c, k) ==
    /\ pc[c] = "start_cs"
    /\ lock = <<"caller", c>>
    /\ ~ThreadAlive
    /\ \E t \in Threads : ~is_alive(t)
    /\ status' = BotStatus(TRUE, "starting", "launching thread")
    /\ thread' = NewThread
    /\ tpc' = [tpc EXCEPT ![NewThread] = "spawned"]
    /\ kind' = [kind EXCEPT ![NewThread] = k]
    /\ err' = [err EXCEPT ![NewThread] = NoError]
    /\ ret' = status'
    /\ calls' = Remember("start_launch")
    /\ lock' = Free
    /\ pc' = [pc EXCEPT ![c] = "idle"]
    /\ UNCHANGED stop_event

\* start(), the launching branch: clear the event, status starting, spawn.
StartLaunch(c, k) ==
    /\ pc[c] = "start_cs"
    /\ lock = <<"caller", c>>
    /\ ~ThreadAlive
    /\ \E t \in Threads : ~is_alive(t)
    /\ stop_event' = FALSE
    /\ status' = BotStatus(TRUE, "starting", "launching thread")
    /\ thread' = NewThread
    /\ tpc' = [tpc EXCEPT ![NewThread] = "spawned"]
    /\ kind' = [kind EXCEPT ![NewThread] = k]
    /\ err' = [err EXCEPT ![NewThread] = NoError]
    /\ ret' = status'
    /\ calls' = Remember("start_launch")
    /\ lock' = Free
    /\ pc' = [pc EXCEPT ![c] = "idle"]

\* An "already stopped" that kept running=True in the status it writes.
StopNoopRunningTrue(c) ==
    /\ pc[c] = "stop_cs"
    /\ lock = <<"caller", c>>
    /\ ~ThreadAlive
    /\ status' = BotStatus(TRUE, "stopped", "already stopped")
    /\ ret' = status'
    /\ calls' = Remember("stop_noop")
    /\ lock' = Free
    /\ pc' = [pc EXCEPT ![c] = "idle"]
    /\ UNCHANGED <<thread, stop_event, tpc, kind, err>>

\* An "already stopped" that set the stop event all the same.
StopNoopSetsEvent(c) ==
    /\ pc[c] = "stop_cs"
    /\ lock = <<"caller", c>>
    /\ ~ThreadAlive
    /\ status' = BotStatus(FALSE, "stopped", "already stopped")
    /\ stop_event' = TRUE
    /\ ret' = status'
    /\ calls' = Remember("stop_noop")
    /\ lock' = Free
    /\ pc' = [pc EXCEPT ![c] = "idle"]
    /\ UNCHANGED <<thread, tpc, kind, err>>

\* stop(), the branch of no live thread: "already stopped".
StopNoop(c) ==
    /\ pc[c] = "stop_cs"
    /\ lock = <<"caller", c>>
    /\ ~ThreadAlive
    /\ status' = BotStatus(FALSE, "stopped", "already stopped")
    /\ ret' = status'
    /\ calls' = Remember("stop_noop")
    /\ lock' = Free
    /\ pc' = [pc EXCEPT ![c] = "idle"]
    /\ UNCHANGED <<thread, stop_event, tpc, kind, err>>

\* stop(), the cooperative stop: status stopping, set the event.
StopRequest(c) ==
    /\ pc[c] = "stop_cs"
    /\ lock = <<"caller", c>>
    /\ ThreadAlive
    /\ status' = BotStatus(TRUE, "stopping", "stop requested")
    /\ stop_event' = TRUE
    /\ ret' = status'
    /\ calls' = Remember("stop_request")
    /\ lock' = Free
    /\ pc' = [pc EXCEPT ![c] = "idle"]
    /\ UNCHANGED <<thread, tpc, kind, err>>

----------------------------------------------------------------------------
\* The worker thread: _thread_main

\* A `with self._lock:` of _thread_main: blocks until the lock is free.
WorkerAcquire(t) ==
    /\ tpc[t] \in {"spawned", "returned", "raised"}
    /\ lock = Free
    /\ lock' = <<"worker", t>>
    /\ tpc' = [tpc EXCEPT ![t] = IF tpc[t] = "spawned" THEN "enter_cs"
                                  ELSE IF tpc[t] = "returned" THEN "finish_cs"
                                  ELSE "except_cs"]
    /\ UNCHANGED <<thread, stop_event, status, pc, ret, kind, err, calls>>

\* A _thread_main that called _run_bot inside its first `with self._lock:`.
WorkerSetRunningKeepLock(t) ==
    /\ tpc[t] = "enter_cs"
    /\ lock = <<"worker", t>>
    /\ status' = BotStatus(TRUE, "running", "started")
    /\ tpc' = [tpc EXCEPT ![t] = "body"]
    /\ UNCHANGED <<lock, thread, stop_event, pc, ret, kind, err, calls>>

\* transition to running
WorkerSetRunning(t) ==
    /\ tpc[t] = "enter_cs"
    /\ lock = <<"worker", t>>
    /\ status' = BotStatus(TRUE, "running", "started")
    /\ lock' = Free
    /\ tpc' = [tpc EXCEPT ![t] = "body"]
    /\ UNCHANGED <<thread, stop_event, pc, ret, kind, err, calls>>

\* _run_bot as in the source: `while not stop_event.is_set(): sleep` ends.
RunBotPoll(t) ==
    /\ tpc[t] = "body"
    /\ kind[t] = "poll"
    /\ stop_event
    /\ tpc' = [tpc EXCEPT ![t] = "returned"]
    /\ UNCHANGED <<lock, thread, stop_event, status, pc, ret, kind, err, calls>>

\* A wired bot body that returns normally on its own.
RunBotReturn(t) ==
    /\ tpc[t] = "body"
    /\ kind[t] = "finish"
    /\ tpc' = [tpc EXCEPT ![t] = "returned"]
    /\ UNCHANGED <<lock, thread, stop_event, status, pc, ret, kind, err, calls>>

\* A wired bot body that raises an Exception.
RunBotRaise(t, e) ==
    /\ tpc[t] = "body"
    /\ kind[t] = "raise"
    /\ tpc' = [tpc EXCEPT ![t] = "raised"]
    /\ err' = [err EXCEPT ![t] = e]
    /\ UNCHANGED <<lock, thread, stop_event, status, pc, ret, kind, calls>>

\* A normal return that put the runtime back to idle.
WorkerSetIdle(t) ==
    /\ tpc[t] = "finish_cs"
    /\ lock = <<"worker", t>>
    /\ status' = BotStatus(FALSE, "idle", "finished")
    /\ lock' = Free
    /\ tpc' = [tpc EXCEPT ![t] = "exiting"]
    /\ UNCHANGED <<thread, stop_event, pc, ret, kind, err, calls>>

\* A worker that ran the bot body again after it returned.
WorkerRerunsBody(t) ==
    /\ tpc[t] = "finish_cs"
    /\ lock = <<"worker", t>>
    /\ status' = BotStatus(TRUE, "running", "started")
    /\ lock' = Free
    /\ tpc' = [tpc EXCEPT ![t] = "body"]
    /\ UNCHANGED <<thread, stop_event, pc, ret, kind, err, calls>>

\* If _run_bot returns normally, treat as stopped.
WorkerSetStopped(t) ==
    /\ tpc[t] = "finish_cs"
    /\ lock = <<"worker", t>>
    /\ status' = BotStatus(FALSE, "stopped", "finished")
    /\ lock' = Free
    /\ tpc' = [tpc EXCEPT ![t] = "exiting"]
    /\ UNCHANGED <<thread, stop_event, pc, ret, kind, err, calls>>

\* An except branch that reported the run as finished.
WorkerSetCrashedAsStopped(t) ==
    /\ tpc[t] = "except_cs"
    /\ lock = <<"worker", t>>
    /\ status' = BotStatus(FALSE, "stopped", "finished")
    /\ lock' = Free
    /\ tpc' = [tpc EXCEPT ![t] = "exiting"]
    /\ UNCHANGED <<thread, stop_event, pc, ret, kind, err, calls>>

\* An except branch that left the detail at its default.
WorkerSetCrashedNoDetail(t) ==
    /\ tpc[t] = "except_cs"
    /\ lock = <<"worker", t>>
    /\ status' = BotStatus(FALSE, "crashed", "")
    /\ lock' = Free
    /\ tpc' = [tpc EXCEPT ![t] = "exiting"]
    /\ UNCHANGED <<thread, stop_event, pc, ret, kind, err, calls>>

\* except Exception as e: status crashed, repr(e)
WorkerSetCrashed(t) ==
    /\ tpc[t] = "except_cs"
    /\ lock = <<"worker", t>>
    /\ status' = BotStatus(FALSE, "crashed", Repr(err[t]))
    /\ lock' = Free
    /\ tpc' = [tpc EXCEPT ![t] = "exiting"]
    /\ UNCHANGED <<thread, stop_event, pc, ret, kind, err, calls>>

\* A thread that reset self._thread to None when it ended.
ThreadExitDiscards(t) ==
    /\ tpc[t] = "exiting"
    /\ tpc' = [tpc EXCEPT ![t] = "dead"]
    /\ kind' = [kind EXCEPT ![t] = "none"]
    /\ err' = [err EXCEPT ![t] = NoError]
    /\ thread' = None
    /\ UNCHANGED <<lock, stop_event, status, pc, ret, calls>>

\* _thread_main has returned: the thread ends and is_alive() turns False.
ThreadExit(t) ==
    /\ tpc[t] = "exiting"
    /\ tpc' = [tpc EXCEPT ![t] = "dead"]
    /\ kind' = [kind EXCEPT ![t] = "none"]
    /\ err' = [err EXCEPT ![t] = NoError]
    /\ UNCHANGED <<lock, thread, stop_event, status, pc, ret, calls>>

----------------------------------------------------------------------------

Next ==
    \/ \E c \in Callers, op \in {"start", "stop", "status"} : Call(c, op)
    \/ \E c \in Callers : Acquire(c)
    \/ \E c \in Callers : Status(c)
    \/ \E c \in Callers : StartNoop(c)
    \/ \E c \in Callers, k \in BodyKinds : StartLaunch(c, k)
    \/ \E c \in Callers : StopNoop(c)
    \/ \E c \in Callers : StopRequest(c)
    \/ \E t \in Threads : WorkerAcquire(t)
    \/ \E t \in Threads : WorkerSetRunning(t)
    \/ \E t \in Threads : RunBotPoll(t)
    \/ \E t \in Threads : RunBotReturn(t)
    \/ \E t \in Threads, e \in Errors : RunBotRaise(t, e)
    \/ \E t \in Threads : WorkerSetStopped(t)
    \/ \E t \in Threads : WorkerSetCrashed(t)
    \/ \E t \in Threads : ThreadExit(t)

Spec == Init /\ [][Next]_vars

\* The block of a `with self._lock:` that the holder of the lock runs.
LockedBlock ==
    \/ \E c \in Callers : Status(c)
    \/ \E c \in Callers : StartNoop(c)
    \/ \E c \in Callers, k \in BodyKinds : StartLaunch(c, k)
    \/ \E c \in Callers : StopNoop(c)
    \/ \E c \in Callers : StopRequest(c)
    \/ \E t \in Threads : WorkerSetRunning(t)
    \/ \E t \in Threads : WorkerSetStopped(t)
    \/ \E t \in Threads : WorkerSetCrashed(t)

\* The steps of the worker thread outside the lock that happen by themselves:
\* the polling loop of _run_bot sees the event, a finished run() ends.
WorkerProgress == \E t \in Threads : RunBotPoll(t) \/ ThreadExit(t)

\* Fairness of the scheduling: the holder of the lock runs its block, the
\* worker that waits for the lock gets it when it is free again and again, and
\* the worker's own steps are taken.  Nothing obliges a caller to call, nor a
\* wired bot body to return or raise.
WorkerFairness ==
    /\ WF_vars(WorkerProgress)
    /\ SF_vars(\E t \in Threads : WorkerAcquire(t))

\* The holder of the lock runs its block: nothing more is needed for calls to
\* return.
LockSpec == Spec /\ WF_vars(LockedBlock)

FairSpec == LockSpec /\ WorkerFairness


----------------------------------------------------------------------------
\* Definitions the properties share

Active == {"starting", "running", "stopping"}

Inactive == {"idle", "stopped", "crashed"}

\* Caller c's start() returns in this step.
StartReturns(c) == pc[c] = "start_cs" /\ pc'[c] = "idle"

\* Caller c's stop() returns in this step.
StopReturns(c) == pc[c] = "stop_cs" /\ pc'[c] = "idle"

\* The most recent start()/stop() call, "" when there was none.
LastCall == IF calls = << >> THEN "" ELSE calls[Len(calls)]

\* A start() or stop() call is in progress.
StartOrStopInProgress ==
    \E c \in Callers : pc[c] \in {"start_wait", "start_cs", "stop_wait", "stop_cs"}

----------------------------------------------------------------------------
\* C1: at most one worker thread is alive in every reachable state, whatever
\* the interleaving of start(), stop(), status() calls and worker steps.
C1_AtMostOneLiveWorker == Cardinality(LiveThreads) <= 1

\* A start() found the worker of an earlier start() alive, while another
\* start() is waiting for the lock.
C1_Witness ==
    /\ calls = <<"start_launch", "start_noop">>
    /\ Cardinality(LiveThreads) = 1
    /\ \E c \in Callers : pc[c] = "start_wait"

\* A status whose running flag agrees with its state.
Consistent(s) ==
    /\ s.state \in Active \cup Inactive
    /\ s.running <=> s.state \in Active
    /\ ~s.running <=> s.state \in Inactive

\* C2: the stored status, and every status a call returned, has running true
\* exactly for the states starting, running, stopping and running false
\* exactly for idle, stopped, crashed.
C2_RunningIffActive == Consistent(status) /\ (ret # NoStatus => Consistent(ret))

\* A stop() returned stopping and the worker then settled the status.
C2_Witness ==
    /\ ret.state = "stopping" /\ ret.running
    /\ status.state = "stopped" /\ ~status.running
    /\ LastCall = "stop_request"

\* C3 (as claimed): a start() that runs while the stored state is starting,
\* running or stopping returns "already running" and creates no worker.
C3_StartWhileActiveIsNoop ==
    [][\A c \in Callers :
          (StartReturns(c) /\ status.state \in Active)
              => (ret'.detail = "already running" /\ tpc' = tpc /\ thread' = thread)]_vars

\* C4 (as claimed): a stop() that runs while the stored state is idle, stopped
\* or crashed returns "already stopped" and leaves the stop event as it was.
C4_StopWhileInactiveIsNoop ==
    [][\A c \in Callers :
          (StopReturns(c) /\ status.state \in Inactive)
              => (ret'.detail = "already stopped" /\ stop_event' = stop_event)]_vars

\* The last start()/stop() call was a stop() that requested the stop of a
\* worker whose body is the polling loop and whose thread is alive, and no
\* start() or stop() is in progress.
C5_StopRequested ==
    /\ LastCall = "stop_request"
    /\ \E t \in Threads : is_alive(t) /\ kind[t] = "poll"
    /\ ~StartOrStopInProgress

\* C5 (as claimed): once stop() has requested the stop of a live worker whose
\* body is the polling loop, the status becomes stopped with running false,
\* unless a further start() or stop() is called.
C5_StopLeadsToStopped ==
    C5_StopRequested ~> ((status.state = "stopped" /\ ~status.running) \/ StartOrStopInProgress)

C7_AfterStartStop ==
    /\ Len(calls) = 2
    /\ calls[1] = "start_launch"
    /\ calls[2] \in {"stop_request", "stop_noop"}

\* C7 (as claimed): in start(); stop(); start() the second start() launches a
\* new worker, with the stop event clear.
C7_RoundTripLaunchesTwice ==
    [][\A c \in Callers :
          (StartReturns(c) /\ C7_AfterStartStop)
              => (ret'.detail = "launching thread" /\ ~stop_event')]_vars

\* C7 (amended): the start() that follows start(); stop() launches a second
\* worker exactly when the first worker's thread has ended; while that thread
\* is alive it is an "already running" no-op that launches nothing.  When it
\* launches, the stop event is clear and the new worker is the only live one.
C7_RoundTripAmended ==
    [][\A c \in Callers :
          (StartReturns(c) /\ C7_AfterStartStop)
              => IF LiveThreads # {}
                 THEN /\ ret'.detail = "already running"
                      /\ tpc' = tpc /\ thread' = thread /\ stop_event' = stop_event
                 ELSE /\ ret'.detail = "launching thread"
                      /\ thread' # None /\ tpc'[thread'] = "spawned"
                      /\ LiveThreads' = {thread'}
                      /\ ~stop_event']_vars

\* A stop() has requested the stop of a launched worker and the start() after
\* it has launched a second worker, which starts with the stop event clear.
C7_Witness ==
    /\ calls = <<"stop_request", "start_launch">>
    /\ ~stop_event
    /\ thread # None /\ tpc[thread] = "spawned"

\* C8: every start() returns, in either branch, a status with running true and
\* state starting or running, which is the stored status when the lock is
\* released.
C8_StartReturnsRunning ==
    [][\A c \in Callers :
          StartReturns(c)
              => (ret' = status' /\ ret'.running /\ ret'.state \in {"starting", "running"})]_vars

\* Both branches of start() have returned.
C8_Witness ==
    /\ calls = <<"start_launch", "start_noop">>
    /\ ret = BotStatus(TRUE, "running", "already running")
    /\ status = ret

\* C9: the lock is held only inside the short `with` blocks, never while the
\* bot body runs, and every call of a caller to whom the lock is fair returns,
\* whatever the bot body does.
C9_CallsReturn ==
    /\ [](\A t \in Threads : lock = <<"worker", t>> => tpc[t] \in {"enter_cs", "finish_cs", "except_cs"})
    /\ \A c \in Callers : SF_vars(Acquire(c)) => ((pc[c] # "idle") ~> (pc[c] = "idle"))

\* stop() has returned while a body that never returns runs, and another call
\* is waiting for the lock.
C9_Witness ==
    /\ thread # None /\ kind[thread] = "hang" /\ tpc[thread] = "body"
    /\ stop_event
    /\ ret = BotStatus(TRUE, "stopping", "stop requested")
    /\ \E c \in Callers : pc[c] = "status_wait"

\* The edges of the state machine as the specification draws it.
SpecEdges ==
    { <<"idle", "starting">>, <<"starting", "running">>, <<"running", "stopping">>,
      <<"stopping", "stopped">>, <<"running", "stopped">>, <<"running", "crashed">>,
      <<"stopping", "crashed">>, <<"stopped", "starting">>, <<"crashed", "starting">> }

\* C10 (as claimed): every change of status.state follows an edge of the
\* state machine of the specification.
C10_OnlySpecEdges ==
    [][status'.state # status.state => <<status.state, status'.state>> \in SpecEdges]_vars

\* The edges the code takes: those of the specification, and those of stop()
\* without a live worker, of stop() before the worker begins, of the no-op
\* start(), and of calls made after the worker's last write.
CodeEdges ==
    SpecEdges \cup
    { <<"idle", "stopped">>, <<"crashed", "stopped">>,
      <<"starting", "stopping">>, <<"stopped", "stopping">>, <<"crashed", "stopping">>,
      <<"stopping", "running">>, <<"stopped", "running">>, <<"crashed", "running">>,
      <<"running", "starting">>, <<"stopping", "starting">> }

\* C10 (amended): every change of status.state follows one of the edges of
\* CodeEdges; in particular idle is never entered, starting is left only to
\* running or stopping, and crashed is entered only from running or stopping.
C10_OnlyCodeEdges ==
    [][status'.state # status.state => <<status.state, status'.state>> \in CodeEdges]_vars

\* stop() on the idle runtime has taken the edge idle -> stopped.
C10_Witness ==
    /\ calls = <<"stop_noop">>
    /\ status = BotStatus(FALSE, "stopped", "already stopped")
    /\ thread = None

\* Thread t takes a step of _thread_main or _run_bot.
WorkerSteps(t) == tpc'[t] # tpc[t] /\ tpc[t] # "unborn" /\ tpc'[t] # "spawned"

\* C11 (as claimed): once the status is stopping, a step of the worker changes
\* it only to stopped or crashed; the worker's entry write does not replace it.
C11_WorkerKeepsStopping ==
    [][\A t \in Threads :
          (WorkerSteps(t) /\ status.state = "stopping" /\ status' # status)
              => status'.state \in {"stopped", "crashed"}]_vars

\* C12: the stop event is set only by stop() and cleared only by start(), and
\* it is never cleared while a worker thread is alive.
C12_SignalMonotonicInRun ==
    [][/\ (~stop_event /\ stop_event') => \E c \in Callers : StopReturns(c)
       /\ (stop_event /\ ~stop_event') =>
              /\ \E c \in Callers : StartReturns(c)
              /\ LiveThreads = {}]_vars

\* A stop request is still set for a live worker after a later no-op start().
C12_Witness ==
    /\ stop_event
    /\ calls = <<"stop_request", "start_noop">>
    /\ thread # None /\ tpc[thread] = "body"

\* The details start() and stop() return: a no-op or a genuine transition.
Resolutions == {"already running", "launching thread", "already stopped", "stop requested"}

\* C13: every start() and stop() returns one of the four resolutions, and the
\* stop event is set only in a step in which the worker thread is alive.
C13_StopSignalsLiveWorker ==
    [][/\ \A c \in Callers : (StartReturns(c) \/ StopReturns(c)) => ret'.detail \in Resolutions
       /\ (stop_event' /\ (~stop_event \/ \E c \in Callers : StopReturns(c) /\ ret'.detail = "stop requested"))
              => (thread # None /\ is_alive(thread) /\ LiveThreads = {thread} /\ tpc' = tpc)
       /\ \A c \in Callers : (StopReturns(c) /\ LiveThreads = {}) =>
              (stop_event' = stop_event /\ ret'.detail = "already stopped")]_vars

\* A stop() has signalled the live worker, and the stop() made after that
\* worker's thread has ended has been a no-op that left the event alone.
C13_Witness ==
    /\ calls = <<"stop_request", "stop_noop">>
    /\ stop_event
    /\ thread # None /\ tpc[thread] = "dead"

\* Thread t invokes the bot body in this step.
Invokes(t) == tpc[t] # "body" /\ tpc'[t] = "body"

\* Thread t is launched in this step.
Launched(t) == tpc[t] # "spawned" /\ tpc'[t] = "spawned"

\* C14: the bot body is invoked once per launching start(): a thread comes to
\* be only by a start() that returns starting, a no-op start() starts and
\* invokes nothing, the body is invoked only by the entry of a launched thread
\* (never again after it has returned), and every launched thread invokes it.
C14_BodyOncePerLaunch ==
    /\ [][\A t \in Threads :
            /\ Launched(t) => \E c \in Callers : StartReturns(c) /\ ret'.state = "starting"
            /\ Invokes(t) => tpc[t] = "enter_cs"
            /\ (tpc[t] = "enter_cs" /\ tpc'[t] # "enter_cs") => tpc'[t] = "body"]_vars
    /\ [][\A c \in Callers :
            /\ (StartReturns(c) /\ ret'.state # "starting") => tpc' = tpc
            /\ (StartReturns(c) /\ ret'.state = "starting") =>
                   Cardinality({t \in Threads : Launched(t)}) = 1]_vars
    /\ \A t \in Threads : (tpc[t] = "spawned") ~> (tpc[t] = "body")

\* After a launching start() and a no-op start() one worker runs the bot body.
C14_Witness ==
    /\ calls = <<"start_launch", "start_noop">>
    /\ thread # None /\ tpc[thread] = "body"
    /\ LiveThreads = {thread}
    /\ ret.detail = "already running"

\* The descriptions of the faults the bot body can raise.
Descriptions == { Repr(e) : e \in Errors }

\* C15: a status with state crashed has running false and the description of
\* a fault as detail, and it is written only by the worker whose bot body
\* raised, with the description of that fault.
C15_CrashedOnlyByFault ==
    /\ [](status.state = "crashed" => (~status.running /\ status.detail \in Descriptions))
    /\ [][(status'.state = "crashed" /\ status' # status) =>
             \E t \in Threads :
                 /\ tpc[t] = "except_cs" /\ tpc'[t] = "exiting"
                 /\ kind[t] = "raise"
                 /\ status' = BotStatus(FALSE, "crashed", Repr(err[t]))]_vars

\* A crash of a second kind of fault is stored while a stop() had been asked.
C15_Witness ==
    /\ status = BotStatus(FALSE, "crashed", "RuntimeError('lost')")
    /\ stop_event
    /\ LastCall = "stop_request"

\* C16: the stored state is idle exactly as long as no start() or stop() has
\* returned; once it has left idle no step makes it idle again, so every
\* later state with running false is stopped or crashed.
C16_IdleNeverReentered ==
    /\ [](calls # << >> => status.state # "idle")
    /\ [](calls # << >> /\ ~status.running => status.state \in {"stopped", "crashed"})
    /\ [][status.state # "idle" => status'.state # "idle"]_vars

\* A run has finished normally: the state is stopped, not idle.
C16_Witness ==
    /\ status = BotStatus(FALSE, "stopped", "finished")
    /\ thread # None /\ tpc[thread] = "dead"
    /\ \A c \in Callers : pc[c] = "idle"

\* Caller c's status() returns in this step.
StatusReturns(c) == pc[c] = "status_cs" /\ pc'[c] = "idle"

\* The statuses the code writes, each as a whole.
WholeWrites ==
    { BotStatus(FALSE, "idle", "not started"),
      BotStatus(TRUE, "running", "already running"),
      BotStatus(TRUE, "starting", "launching thread"),
      BotStatus(FALSE, "stopped", "already stopped"),
      BotStatus(TRUE, "stopping", "stop requested"),
      BotStatus(TRUE, "running", "started"),
      BotStatus(FALSE, "stopped", "finished") }
    \cup { BotStatus(FALSE, "crashed", d) : d \in Descriptions }

\* C17: status() changes nothing but its caller's position and result, and the
\* result is the stored status, which is always a status written as a whole.
C17_StatusIsPure ==
    /\ [](status \in WholeWrites /\ ret \in WholeWrites \cup {NoStatus})
    /\ [][\A c \in Callers :
            StatusReturns(c) =>
                /\ ret' = status
                /\ UNCHANGED <<status, thread, stop_event, tpc, kind, err, calls>>
                /\ lock' = Free]_vars

\* status() has returned the worker's entry write while the worker runs.
C17_Witness ==
    /\ ret = BotStatus(TRUE, "running", "started")
    /\ status = ret
    /\ thread # None /\ tpc[thread] = "body"

\* C18 (as claimed): when no worker thread is alive and no start() or stop()
\* is in progress, the stored status has running false.
C18_QuiescentNotRunning ==
    (LiveThreads = {} /\ ~StartOrStopInProgress) => ~status.running

\* C19 (as claimed): a stored crashed status is replaced only by a start()
\* that launches a worker.
C19_CrashKeptUntilLaunch ==
    [][(status.state = "crashed" /\ status' # status) =>
          \E c \in Callers : StartReturns(c) /\ ret'.detail = "launching thread"]_vars

\* C19 (amended): a stored crashed status is returned unchanged by every
\* status() and is replaced only by a start() or stop() call, any of which
\* replaces it.
C19_CrashKeptUntilStartOrStop ==
    [][/\ (status.state = "crashed" /\ status' # status) =>
              \E c \in Callers : StartReturns(c) \/ StopReturns(c)
       /\ \A c \in Callers :
              (status.state = "crashed" /\ StatusReturns(c)) => (ret' = status /\ status' = status)
       /\ \A c \in Callers :
              (status.state = "crashed" /\ (StartReturns(c) \/ StopReturns(c)))
                  => status'.state # "crashed"]_vars

\* status() has returned the crash after the crashed worker's thread ended.
C19_Witness ==
    /\ ret = BotStatus(FALSE, "crashed", "ValueError('boom')")
    /\ status = ret
    /\ thread # None /\ tpc[thread] = "dead"
    /\ \A c \in Callers : pc[c] = "idle"

\* C20 (as claimed): self._thread does not refer to a thread that has ended.
C20_HandleDiscarded == thread # None => tpc[thread] # "dead"

\* C20 (amended): self._thread is assigned only by a launching start(), which
\* stores the new thread; it is never reset to None, so it refers to the
\* finished worker until the next launching start(), and every live thread
\* is the one it refers to.
C20_HandleKeptUntilLaunch ==
    /\ [](LiveThreads \subseteq {thread})
    /\ [][/\ thread # None => thread' # None
          /\ thread' # thread =>
                 /\ \E c \in Callers : StartReturns(c) /\ ret'.detail = "launching thread"
                 /\ tpc'[thread'] = "spawned"
          /\ \A t \in Threads : (tpc[t] = "exiting" /\ tpc'[t] = "dead") => thread' = thread]_vars

\* self._thread refers to the thread of a crashed run that has ended.
C20_Witness ==
    /\ thread # None /\ tpc[thread] = "dead"
    /\ status.state = "crashed"
    /\ LiveThreads = {}

====
